---- MODULE Spec2Model ----
(***************************************************************************)
(* Model of the ns_trcd computation pipeline (src/ns_trcd/comp_worker.py)  *)
(* together with the parts of the main window (src/ns_trcd/ui.py) that     *)
(* touch the shared stop flag.                                             *)
(*                                                                         *)
(* Numbers.  numpy works on IEEE doubles; the model works on exact reals:  *)
(*   - a calibrated sample is [m |-> i, e |-> k], the real i * 10^k        *)
(*     (k = 0 except for the substituted 1e-12);                           *)
(*   - a rational is <<n, d>> in lowest terms with d > 0;                  *)
(*   - a dA sample -log10(x) is a vector of rationals over the basis       *)
(*     log10(2), log10(3), log10(5), log10(7), which is exact for every x  *)
(*     whose prime factors are among 2, 3, 5, 7 (all inputs used here).    *)
(* Floating-point rounding is therefore outside the model.                 *)
(***************************************************************************)
EXTENDS Integers, Sequences, FiniteSets, TLC

\* ------------------------------------------------------------------ bounds
\* Number of derivation attempts a session is followed for.
MaxCount == 2
\* Length of the shorter of the two modelled trace lengths.
TraceLen == 2

\* -------------------------------------------------------------- optionals
\* Python's None and a present value.
None == <<>>
Some(x) == <<x>>
Val(o) == o[1]

\* ------------------------------------------------------------- arithmetic
Abs(x) == IF x < 0 THEN -x ELSE x

Sign(x) == IF x < 0 THEN -1 ELSE IF x = 0 THEN 0 ELSE 1

RECURSIVE GCD(_, _)
GCD(a, b) == IF b = 0 THEN a ELSE GCD(b, a % b)

\* The rational n/d in lowest terms, d > 0.
Rat(n, d) ==
    LET g == GCD(Abs(n), Abs(d))
        s == IF d < 0 THEN -1 ELSE 1
    IN  <<(s * n) \div g, (s * d) \div g>>

RAdd(a, b) == Rat(a[1] * b[2] + b[1] * a[2], a[2] * b[2])

RSub(a, b) == Rat(a[1] * b[2] - b[1] * a[2], a[2] * b[2])

RMul(a, b) == Rat(a[1] * b[1], a[2] * b[2])

RZero == <<0, 1>>

\* Basis of the logarithm vectors.
Primes == {2, 3, 5, 7}

\* Exponent of the prime p in the positive integer n.
RECURSIVE Vp(_, _)
Vp(n, p) == IF n % p = 0 THEN 1 + Vp(n \div p, p) ELSE 0

\* A calibrated sample: the real m * 10^e.
Num(m, e) == [m |-> m, e |-> e]

\* Coordinate p of log10 |x| for a non-zero sample x.
Log10(x, p) == Vp(Abs(x.m), p) + (IF p \in {2, 5} THEN x.e ELSE 0)

\* Vector operations on dA samples (rational coordinates over Primes).
VZero == [p \in Primes |-> RZero]

VScale(c, v) == [p \in Primes |-> RMul(c, v[p])]

VAdd(u, v) == [p \in Primes |-> RAdd(u[p], v[p])]

\* ------------------------------------------------------------ calibration
\* One channel of compute_signals' conversion: raw * scale + offset, then
\* the in-place subtraction of the dark current when one is configured.
CalibrateChannel(raw, scale, offset, dark) ==
    [i \in 1..Len(raw) |->
        Num(raw[i] * scale + offset - (IF dark = None THEN 0 ELSE Val(dark)), 0)]

\* The MeasurementData built by compute_signals from one RawData.
MeasurementData(par, perp, ref) == [par |-> par, perp |-> perp, ref |-> ref]

\* A conversion that subtracts the perpendicular dark current from every
\* channel.
Calibrate_SharedDark(data, c, dark) ==
    MeasurementData(
        CalibrateChannel(data.par, Val(c.v_scale_par), Val(c.v_offset_par), dark.perp),
        CalibrateChannel(data.perp, Val(c.v_scale_perp), Val(c.v_offset_perp), dark.perp),
        CalibrateChannel(data.ref, Val(c.v_scale_ref), Val(c.v_offset_ref), dark.perp))

Calibrate(data, c, dark) ==
    MeasurementData(
        CalibrateChannel(data.par, Val(c.v_scale_par), Val(c.v_offset_par), dark.par),
        CalibrateChannel(data.perp, Val(c.v_scale_perp), Val(c.v_offset_perp), dark.perp),
        CalibrateChannel(data.ref, Val(c.v_scale_ref), Val(c.v_offset_ref), dark.ref))

\* data.par * None raises TypeError: the calibration fields are still None.
CalibrationMissing(c) ==
    \/ c.v_scale_par = None \/ c.v_offset_par = None
    \/ c.v_scale_perp = None \/ c.v_offset_perp = None
    \/ c.v_scale_ref = None \/ c.v_offset_ref = None

\* ------------------------------------------------------------- compute_da
\* The substituted value for a zero reference sample.
Epsilon == Num(1, -12)

\* A recovery that also overwrites the negative samples: ref[ref <= 0] = 1e-12
SubstituteZeros_NonPositive(ref) ==
    [i \in 1..Len(ref) |-> IF ref[i].m <= 0 THEN Epsilon ELSE ref[i]]

\* ref[ref == 0] = 1e-12
SubstituteZeros(ref) ==
    [i \in 1..Len(ref) |-> IF ref[i].m = 0 THEN Epsilon ELSE ref[i]]

\* numpy broadcasting of two one-dimensional arrays.
Broadcastable(a, b) == Len(a) = Len(b) \/ Len(a) = 1 \/ Len(b) = 1

BLen(a, b) == IF Len(a) >= Len(b) THEN Len(a) ELSE Len(b)

At(a, i) == IF Len(a) = 1 THEN a[1] ELSE a[i]

\* -log10((w.sig / w.ref) / (n.sig / n.ref)) raises FloatingPointError under
\* errstate(all="raise") when a divisor sample is zero (w.ref, n.ref, or the
\* quotient n.sig / n.ref) or when the argument of log10 is zero or negative.
LogRaises(sig, w, n) ==
    \E i \in 1..BLen(w.ref, n.ref) :
        \/ At(w.ref, i).m = 0
        \/ At(n.ref, i).m = 0
        \/ At(n[sig], i).m = 0
        \/ At(w[sig], i).m = 0
        \/ Sign(At(w[sig], i).m) * Sign(At(w.ref, i).m)
             * Sign(At(n[sig], i).m) * Sign(At(n.ref, i).m) < 0

\* -log10((w.sig / w.ref) / (n.sig / n.ref)), element-wise.
MinusLog10Ratio(sig, w, n) ==
    [i \in 1..BLen(w.ref, n.ref) |->
        [p \in Primes |->
            Rat(0 - (Log10(At(w[sig], i), p) - Log10(At(w.ref, i), p)
                     - Log10(At(n[sig], i), p) + Log10(At(n.ref, i), p)), 1)]]

\* np.divide(perp, par) raises when a par sample is zero.
CdRaises(w, n) ==
    \E i \in 1..BLen(w.par, n.par) : At(w.par, i).m = 0 \/ At(n.par, i).m = 0

\* The CD signal with the two quotients added instead of subtracted.
CdOf_Sum(w, n) ==
    [i \in 1..BLen(w.par, n.par) |->
        RMul(Rat(40, 23),
             RAdd(Rat(At(w.perp, i).m, At(w.par, i).m),
                  Rat(At(n.perp, i).m, At(n.par, i).m)))]

\* (4 / 2.3) * (w.perp / w.par - n.perp / n.par), element-wise.
CdOf(w, n) ==
    [i \in 1..BLen(w.par, n.par) |->
        RMul(Rat(40, 23),
             RSub(Rat(At(w.perp, i).m, At(w.par, i).m),
                  Rat(At(n.perp, i).m, At(n.par, i).m)))]

\* compute_da on the two buffered traces.  The result carries the traces as
\* the call leaves them (the recovery writes into the buffered ref arrays),
\* whether the call raised, and the three derived signals when it did not.
compute_da(w, n) ==
    LET shapes_ok == Broadcastable(w.ref, n.ref)
        first_raises == LogRaises("par", w, n) \/ LogRaises("perp", w, n)
        w2 == IF first_raises THEN [w EXCEPT !.ref = SubstituteZeros(w.ref)] ELSE w
        n2 == IF first_raises THEN [n EXCEPT !.ref = SubstituteZeros(n.ref)] ELSE n
        second_raises == LogRaises("par", w2, n2) \/ LogRaises("perp", w2, n2)
        raised == (~shapes_ok) \/ (first_raises /\ second_raises) \/ CdRaises(w2, n2)
    IN  IF ~shapes_ok
        THEN [raised |-> TRUE, recovered |-> FALSE, w |-> w, n |-> n]
        ELSE IF raised
        THEN [raised |-> TRUE, recovered |-> first_raises, w |-> w2, n |-> n2]
        ELSE [raised |-> FALSE, recovered |-> first_raises, w |-> w2, n |-> n2,
              da_par |-> MinusLog10Ratio("par", w2, n2),
              da_perp |-> MinusLog10Ratio("perp", w2, n2),
              da_cd |-> CdOf(w2, n2)]

\* -------------------------------------------------------- update_averages
\* (average_count - 1) / average_count * avg + 1 / average_count * sample
\* for a dA trace (vector samples) and for the CD trace (rational samples).
WeightedV(ac, avg, sample) ==
    [i \in 1..BLen(avg, sample) |->
        VAdd(VScale(Rat(ac - 1, ac), At(avg, i)), VScale(Rat(1, ac), At(sample, i)))]

WeightedR(ac, avg, sample) ==
    [i \in 1..BLen(avg, sample) |->
        RAdd(RMul(Rat(ac - 1, ac), At(avg, i)), RMul(Rat(1, ac), At(sample, i)))]

\* np.zeros(n) as a dA trace and as a CD trace.
ZerosV(n) == [i \in 1..n |-> VZero]

ZerosR(n) == [i \in 1..n |-> RZero]

\* update_averages with a reset arm that forgets to restart average_count.
update_averages_KeepsCount(cnt, ac, rst, avg, par, perp, cd) ==
    IF cnt = 1
    THEN [raised |-> FALSE, branch |-> "first", average_count |-> ac,
          should_reset_averages |-> rst,
          avg_da_par |-> par, avg_da_perp |-> perp, avg_da_cd |-> cd]
    ELSE IF rst
    THEN [raised |-> FALSE, branch |-> "reset", average_count |-> ac,
          should_reset_averages |-> FALSE,
          avg_da_par |-> par, avg_da_perp |-> perp, avg_da_cd |-> cd]
    ELSE IF ~Broadcastable(avg.par, par)
    THEN [raised |-> TRUE, branch |-> "mean", average_count |-> ac,
          should_reset_averages |-> rst,
          avg_da_par |-> avg.par, avg_da_perp |-> avg.perp, avg_da_cd |-> avg.cd]
    ELSE [raised |-> FALSE, branch |-> "mean", average_count |-> ac,
          should_reset_averages |-> rst,
          avg_da_par |-> WeightedV(ac, avg.par, par),
          avg_da_perp |-> WeightedV(ac, avg.perp, perp),
          avg_da_cd |-> WeightedR(ac, avg.cd, cd)]

\* update_averages whose reset arm restarts the averaging count at zero.
update_averages_ResetToZero(cnt, ac, rst, avg, par, perp, cd) ==
    IF cnt = 1
    THEN [raised |-> FALSE, branch |-> "first", average_count |-> ac,
          should_reset_averages |-> rst,
          avg_da_par |-> par, avg_da_perp |-> perp, avg_da_cd |-> cd]
    ELSE IF rst
    THEN [raised |-> FALSE, branch |-> "reset", average_count |-> 0,
          should_reset_averages |-> FALSE,
          avg_da_par |-> par, avg_da_perp |-> perp, avg_da_cd |-> cd]
    ELSE IF ~Broadcastable(avg.par, par)
    THEN [raised |-> TRUE, branch |-> "mean", average_count |-> ac,
          should_reset_averages |-> rst,
          avg_da_par |-> avg.par, avg_da_perp |-> avg.perp, avg_da_cd |-> avg.cd]
    ELSE [raised |-> FALSE, branch |-> "mean", average_count |-> ac,
          should_reset_averages |-> rst,
          avg_da_par |-> WeightedV(ac, avg.par, par),
          avg_da_perp |-> WeightedV(ac, avg.perp, perp),
          avg_da_cd |-> WeightedR(ac, avg.cd, cd)]

\* update_averages(par, perp, cd) with self.count = cnt, self.average_count
\* = ac and self.should_reset_averages = rst.  branch names the arm taken;
\* the last arm raises ValueError when the shapes do not broadcast.
update_averages(cnt, ac, rst, avg, par, perp, cd) ==
    IF cnt = 1
    THEN [raised |-> FALSE, branch |-> "first", average_count |-> ac,
          should_reset_averages |-> rst,
          avg_da_par |-> par, avg_da_perp |-> perp, avg_da_cd |-> cd]
    ELSE IF rst
    THEN [raised |-> FALSE, branch |-> "reset", average_count |-> 1,
          should_reset_averages |-> FALSE,
          avg_da_par |-> par, avg_da_perp |-> perp, avg_da_cd |-> cd]
    ELSE IF ~Broadcastable(avg.par, par)
    THEN [raised |-> TRUE, branch |-> "mean", average_count |-> ac,
          should_reset_averages |-> rst,
          avg_da_par |-> avg.par, avg_da_perp |-> avg.perp, avg_da_cd |-> avg.cd]
    ELSE [raised |-> FALSE, branch |-> "mean", average_count |-> ac,
          should_reset_averages |-> rst,
          avg_da_par |-> WeightedV(ac, avg.par, par),
          avg_da_perp |-> WeightedV(ac, avg.perp, perp),
          avg_da_cd |-> WeightedR(ac, avg.cd, cd)]

\* ----------------------------------------------------------------- inputs
\* POINTS of common.py sizes the initial averages (np.zeros(POINTS)).  The
\* source value is 1_000; what the model keeps of it is that a trace can be
\* exactly POINTS samples long or of another length.
POINTS == TraceLen + 1

\* UiSettings handed to the constructor by start_collecting.
UiSettings(n, sv, dpar, dperp, dref) ==
    [num_measurements |-> n, save |-> sv,
     dark_curr_par |-> dpar, dark_curr_perp |-> dperp, dark_curr_ref |-> dref]

SettingsChoices ==
    { UiSettings(0, FALSE, None, None, None),
      UiSettings(1, TRUE, None, Some(-1), Some(1)),
      UiSettings(2, FALSE, None, None, None) }

\* Preamble records the experiment worker can deliver.
Preamble(t, sp, op, spp, opp, sr, or, pts) ==
    [t_res |-> t, v_scale_par |-> sp, v_offset_par |-> op,
     v_scale_perp |-> spp, v_offset_perp |-> opp,
     v_scale_ref |-> sr, v_offset_ref |-> or, points |-> pts]

Preambles ==
    { Preamble(20, 1, 0, 1, 0, 1, 0, TraceLen),
      Preamble(20, 2, 0, 1, 1, 1, 0, POINTS) }

\* A raw channel of n samples: a at the first sample, b at the others.
RawTrace(n, ab) == [i \in 1..n |-> IF i = 1 THEN ab[1] ELSE ab[2]]

RawData(n, shape, has_pump) ==
    [par |-> RawTrace(n, shape.par), perp |-> RawTrace(n, shape.perp),
     ref |-> RawTrace(n, shape.ref), has_pump |-> has_pump]

\* Digitizer readings: all ones, one with other values and a zero reference
\* sample, and one with a zero parallel sample.
RawShapes ==
    { [par |-> <<1, 1>>, perp |-> <<1, 1>>, ref |-> <<1, 1>>],
      [par |-> <<2, 1>>, perp |-> <<1, 2>>, ref |-> <<0, 1>>],
      [par |-> <<0, 1>>, perp |-> <<1, 1>>, ref |-> <<1, 1>>] }

\* Directories the user can choose as save location, and what one can hold.
Dirs == {"A", "B"}

DirStates == {"missing", "empty", "files"}

\* What _save_measurement can meet on disk: success, mkdir failing, or
\* np.save failing at the k-th of the nine artifacts.
SaveOutcomes == {"ok", "mkdir", "first", "seventh"}

\* A _save_measurement that removes what it wrote when a write fails.
ArtifactsWritten_Cleanup(io) == IF io = "ok" THEN 9 ELSE 0

\* Artifacts on disk after _save_measurement met outcome io.
ArtifactsWritten(io) ==
    IF io = "ok" THEN 9 ELSE IF io = "seventh" THEN 6 ELSE 0

\* ------------------------------------------------------------------ state
VARIABLES
    save, max_measurements, dark_curr,        \* from UiSettings
    count, average_count, should_reset_averages,
    avg_da_par, avg_da_perp, avg_da_cd,
    with_pump, without_pump,
    cal,                                      \* t_res, v_scale_*, v_offset_*, points
    disk,                                     \* contents of save_dir
    SHOULD_STOP, mutex,                       \* common.SHOULD_STOP and the QMutex
    comp_pc, ui_pc,                           \* position of each thread
    comp_quit, comp_running,                  \* comp_thread.quit() / finished
    done,                                     \* exp_worker.signals.done emitted
    signals,                                  \* last emission of each worker signal
    outcome,                                  \* how the last compute_signals ended
    derivations,                              \* calls that emitted derived signals
    completed,                                \* deriving calls that returned normally
    used,                                     \* buffered traces already derived from
    epoch,                                    \* samples of the current average epoch
    raw,                                      \* the caller's RawData after the last call
    consumer,                                 \* the pending snapshot the main window holds
    io_met,                                   \* what _save_measurement met in the last call
    collecting, closed,                       \* MainWindow.collecting; the window was closed
    exp_running,                              \* exp_thread started and not finished
    save_checked,                             \* save_data_checkbox.isChecked()
    save_data_dir,                            \* MainWindow.save_data_dir
    save_loc,                                 \* text of the save_loc field
    dirs,                                     \* what each directory held at the last start
    save_dir,                                 \* ComputationWorker.save_dir
    sessions,                                 \* start_collecting calls that started threads
    start                                     \* what the last of them checked and cleared

worker == <<save, max_measurements, dark_curr, count, average_count,
            should_reset_averages, avg_da_par, avg_da_perp, avg_da_cd,
            with_pump, without_pump, cal, disk>>

shared == <<SHOULD_STOP, mutex>>

threads == <<comp_pc, ui_pc, comp_quit, comp_running, done>>

history == <<signals, outcome, derivations, completed, used, epoch, raw,
             consumer, io_met>>

window == <<collecting, closed, save_checked, save_data_dir, save_loc, dirs,
            save_dir, sessions, start>>

vars == <<worker, shared, threads, history, window, exp_running>>

\* ComputationWorker.__init__ plus the thread start of start_collecting.
InitWorker(settings) ==
    /\ save = settings.save
    /\ disk = {}
    /\ count = 0
    /\ average_count = 0
    /\ should_reset_averages = FALSE
    /\ max_measurements = settings.num_measurements
    /\ avg_da_par = ZerosV(POINTS)
    /\ avg_da_perp = ZerosV(POINTS)
    /\ avg_da_cd = ZerosR(POINTS)
    /\ with_pump = None
    /\ without_pump = None
    /\ cal = [t_res |-> None,
              v_offset_par |-> None, v_offset_perp |-> None,
              v_offset_ref |-> None, v_offset_shutter |-> None,
              v_scale_par |-> None, v_scale_perp |-> None,
              v_scale_ref |-> None, v_scale_shutter |-> None]
    /\ dark_curr = [par |-> settings.dark_curr_par,
                    perp |-> settings.dark_curr_perp,
                    ref |-> settings.dark_curr_ref]

NoEpoch == [k |-> 0, par |-> <<>>, perp |-> <<>>, cd |-> <<>>]

Init ==
    /\ \E settings \in SettingsChoices : InitWorker(settings)
    /\ SHOULD_STOP = FALSE
    /\ mutex = "free"
    /\ comp_pc = "idle"
    /\ ui_pc = "idle"
    /\ comp_quit = FALSE
    /\ comp_running = TRUE
    /\ done = "no"
    /\ signals = [time_axis |-> None, meas_num |-> None, new_data |-> None]
    /\ outcome = [has_pump |-> FALSE, result |-> "none"]
    /\ derivations = 0
    /\ completed = 0
    /\ used = [with_pump |-> FALSE, without_pump |-> FALSE]
    /\ epoch = NoEpoch
    /\ raw = None
    /\ consumer = None
    /\ io_met = "none"
    /\ collecting = FALSE
    /\ closed = FALSE
    /\ exp_running = TRUE
    /\ save_checked = save
    /\ save_data_dir = (IF save THEN Some("A") ELSE None)
    /\ save_loc = (IF save THEN "A" ELSE "")
    /\ dirs = [d \in Dirs |-> "empty"]
    /\ save_dir = (IF save THEN Some("A") ELSE None)
    /\ sessions = 1
    /\ start = [stop_flag |-> FALSE, checked |-> save_data_dir, confirmed |-> FALSE,
                cleared |-> save_dir, lost |-> FALSE]

\* The computation thread takes the next queued slot call.
CompReady == comp_running /\ ~comp_quit /\ comp_pc = "idle"

\* ---------------------------------------------------------- store_preamble
\* store_preamble with a time axis that starts one resolution step late.
store_preamble_AxisFromOne(preamble) ==
    /\ CompReady
    /\ cal.t_res = None
    /\ cal' = [f \in DOMAIN cal \cup {"points"} |->
                 IF f \in DOMAIN preamble THEN Some(preamble[f]) ELSE cal[f]]
    /\ signals' = [signals EXCEPT !.time_axis =
                     Some([i \in 1..preamble.points |-> preamble.t_res * i])]
    /\ UNCHANGED <<save, max_measurements, dark_curr, count, average_count,
                   should_reset_averages, avg_da_par, avg_da_perp, avg_da_cd,
                   with_pump, without_pump, disk>>
    /\ UNCHANGED <<shared, threads, outcome, derivations, completed, used, epoch, raw,
                   consumer, io_met>>
    /\ UNCHANGED <<window, exp_running>>

store_preamble(preamble) ==
    /\ CompReady
    /\ cal.t_res = None   \* the experiment worker emits its preamble once
    /\ cal' = [f \in DOMAIN cal \cup {"points"} |->
                 IF f \in DOMAIN preamble THEN Some(preamble[f]) ELSE cal[f]]
    /\ signals' = [signals EXCEPT !.time_axis =
                     Some([i \in 1..preamble.points |-> preamble.t_res * (i - 1)])]
    /\ UNCHANGED <<save, max_measurements, dark_curr, count, average_count,
                   should_reset_averages, avg_da_par, avg_da_perp, avg_da_cd,
                   with_pump, without_pump, disk>>
    /\ UNCHANGED <<shared, threads, outcome, derivations, completed, used, epoch, raw,
                   consumer, io_met>>
    /\ UNCHANGED <<window, exp_running>>

\* ---------------------------------------------------------- reset_averages
\* reset_averages clearing the running averages at once instead of deferring.
reset_averages_Immediate ==
    /\ CompReady
    /\ should_reset_averages' = TRUE
    /\ average_count' = 0
    /\ avg_da_par' = ZerosV(POINTS)
    /\ avg_da_perp' = ZerosV(POINTS)
    /\ avg_da_cd' = ZerosR(POINTS)
    /\ UNCHANGED <<save, max_measurements, dark_curr, count,
                   with_pump, without_pump, cal, disk>>
    /\ UNCHANGED <<shared, threads, history>>
    /\ UNCHANGED <<window, exp_running>>

reset_averages ==
    /\ CompReady
    /\ should_reset_averages' = TRUE
    /\ UNCHANGED <<save, max_measurements, dark_curr, count, average_count,
                   avg_da_par, avg_da_perp, avg_da_cd,
                   with_pump, without_pump, cal, disk>>
    /\ UNCHANGED <<shared, threads, history>>
    /\ UNCHANGED <<window, exp_running>>

\* --------------------------------------------------------- compute_signals
PlotData(par, perp, ref, da_par, da_perp, da_cd, a_par, a_perp, a_cd) ==
    [par |-> par, perp |-> perp, ref |-> ref,
     da_par |-> da_par, da_perp |-> da_perp, da_cd |-> da_cd,
     avg_da_par |-> a_par, avg_da_perp |-> a_perp, avg_da_cd |-> a_cd]

\* Element-wise sums, for the samples of an average epoch.
SumV(a, b) == [i \in 1..Len(a) |-> VAdd(a[i], b[i])]

SumR(a, b) == [i \in 1..Len(a) |-> RAdd(a[i], b[i])]

\* The epoch after one more sample went into the averages through the named
\* arm of update_averages.
EpochAfter(branch, da) ==
    IF branch = "reset" \/ epoch.k = 0
    THEN [k |-> 1, par |-> da.da_par, perp |-> da.da_perp, cd |-> da.da_cd]
    ELSE [k |-> epoch.k + 1, par |-> SumV(epoch.par, da.da_par),
          perp |-> SumV(epoch.perp, da.da_perp), cd |-> SumR(epoch.cd, da.da_cd)]

\* compute_signals counting the acquisition before its conversion fails.
ComputeSignalsUncalibrated_Counts(data) ==
    /\ CalibrationMissing(cal)
    /\ count' = count + 1
    /\ outcome' = [has_pump |-> data.has_pump, result |-> "TypeError"]
    /\ UNCHANGED <<save, max_measurements, dark_curr, average_count,
                   should_reset_averages, avg_da_par, avg_da_perp, avg_da_cd,
                   with_pump, without_pump, cal, disk>>
    /\ io_met' = "none"
    /\ UNCHANGED <<shared, threads, signals, derivations, completed, used, epoch,
                   consumer>>

\* Lines 120-132 raise TypeError before anything is stored.
ComputeSignalsUncalibrated(data) ==
    /\ CalibrationMissing(cal)
    /\ outcome' = [has_pump |-> data.has_pump, result |-> "TypeError"]
    /\ io_met' = "none"
    /\ UNCHANGED <<worker, shared, threads, signals, derivations, completed, used, epoch,
                   consumer>>

\* The PlotData of a pending call in the hands of the main window: the values
\* of its ref array when it was emitted, the values the array holds now, and
\* whether the array is still the one buffered in the slot of its kind.
Snapshot(has_pump, ref) ==
    [has_pump |-> has_pump, received |-> ref, reads |-> ref, in_slot |-> TRUE]

\* The snapshot after a call that ingested data and ran compute_da with the
\* result da: line 130/132 puts a new object in the slot of data.has_pump,
\* lines 181-182 write into the ref arrays of both slots, and lines 154-155
\* (when reached) drop both.
ConsumerAfter(data, da, slots_kept) ==
    IF consumer = None THEN None
    ELSE LET c == Val(consumer)
             written == c.in_slot /\ c.has_pump # data.has_pump
         IN  Some([c EXCEPT
                 !.reads = IF written
                           THEN (IF c.has_pump THEN da.w.ref ELSE da.n.ref)
                           ELSE c.reads,
                 !.in_slot = written /\ slots_kept])

\* A pending call that publishes a measurement number all the same.
ComputeSignalsPending_Counts(data, md, w1, n1) ==
    /\ with_pump' = w1
    /\ without_pump' = n1
    /\ count' = count + 1
    /\ signals' = [signals EXCEPT
                     !.meas_num = Some(count + 1),
                     !.new_data =
                     Some(PlotData(md.par, md.perp, md.ref,
                                   None, None, None, None, None, None))]
    /\ outcome' = [has_pump |-> data.has_pump, result |-> "pending"]
    /\ consumer' = Some(Snapshot(data.has_pump, md.ref))
    /\ io_met' = "none"
    /\ used' = IF data.has_pump THEN [used EXCEPT !.with_pump = FALSE]
                                ELSE [used EXCEPT !.without_pump = FALSE]
    /\ UNCHANGED <<save, max_measurements, dark_curr, average_count,
                   should_reset_averages, avg_da_par, avg_da_perp, avg_da_cd,
                   cal, disk>>
    /\ UNCHANGED <<shared, threads, derivations, completed, epoch>>

\* Lines 160-162: the pair is not complete yet.
ComputeSignalsPending(data, md, w1, n1) ==
    /\ with_pump' = w1
    /\ without_pump' = n1
    /\ signals' = [signals EXCEPT !.new_data =
                     Some(PlotData(md.par, md.perp, md.ref,
                                   None, None, None, None, None, None))]
    /\ outcome' = [has_pump |-> data.has_pump, result |-> "pending"]
    /\ consumer' = Some(Snapshot(data.has_pump, md.ref))
    /\ io_met' = "none"
    /\ used' = IF data.has_pump THEN [used EXCEPT !.with_pump = FALSE]
                                ELSE [used EXCEPT !.without_pump = FALSE]
    /\ UNCHANGED <<save, max_measurements, dark_curr, count, average_count,
                   should_reset_averages, avg_da_par, avg_da_perp, avg_da_cd,
                   cal, disk>>
    /\ UNCHANGED <<shared, threads, derivations, completed, epoch>>

\* The deriving branch with the stop flag requested before the measurement is
\* persisted.
ComputeSignalsDerive_StopBeforeSave(data, w1, n1) ==
    LET cnt == count + 1
        ac  == average_count + 1
        fresh == IF data.has_pump THEN [used EXCEPT !.with_pump = FALSE]
                                  ELSE [used EXCEPT !.without_pump = FALSE]
    IN
    \E da \in {compute_da(Val(w1), Val(n1))} :
    /\ count' = cnt
    /\ UNCHANGED <<save, max_measurements, dark_curr, cal, shared,
                   ui_pc, comp_quit, comp_running, done>>
    /\ IF da.raised
       THEN \* compute_da raised: nothing after line 138 runs
            /\ average_count' = ac
            /\ with_pump' = Some(da.w)
            /\ without_pump' = Some(da.n)
            /\ signals' = [signals EXCEPT !.meas_num = Some(cnt)]
            /\ outcome' = [has_pump |-> data.has_pump,
                           result |-> IF Broadcastable(Val(w1).ref, Val(n1).ref)
                                      THEN "FloatingPointError" ELSE "ValueError"]
            /\ used' = fresh
            /\ consumer' = ConsumerAfter(data, da, TRUE)
            /\ io_met' = "none"
            /\ UNCHANGED <<should_reset_averages, avg_da_par, avg_da_perp,
                           avg_da_cd, disk, comp_pc, derivations, completed, epoch>>
       ELSE
       \E up \in {update_averages(cnt, ac, should_reset_averages,
                     [par |-> avg_da_par, perp |-> avg_da_perp, cd |-> avg_da_cd],
                     da.da_par, da.da_perp, da.da_cd)} :
       LET mine == IF data.has_pump THEN da.w ELSE da.n
       IN
       IF up.raised
       THEN \* update_averages raised: nothing after line 139 runs
            /\ average_count' = ac
            /\ with_pump' = Some(da.w)
            /\ without_pump' = Some(da.n)
            /\ signals' = [signals EXCEPT !.meas_num = Some(cnt)]
            /\ outcome' = [has_pump |-> data.has_pump, result |-> "ValueError"]
            /\ used' = fresh
            /\ consumer' = ConsumerAfter(data, da, TRUE)
            /\ io_met' = "none"
            /\ UNCHANGED <<should_reset_averages, avg_da_par, avg_da_perp,
                           avg_da_cd, disk, comp_pc, derivations, completed, epoch>>
       ELSE
            /\ average_count' = up.average_count
            /\ should_reset_averages' = up.should_reset_averages
            /\ avg_da_par' = up.avg_da_par
            /\ avg_da_perp' = up.avg_da_perp
            /\ avg_da_cd' = up.avg_da_cd
            /\ signals' = [signals EXCEPT
                   !.meas_num = Some(cnt),
                   !.new_data = Some(PlotData(mine.par, mine.perp, mine.ref,
                       Some(da.da_par), Some(da.da_perp), Some(da.da_cd),
                       Some(up.avg_da_par), Some(up.avg_da_perp),
                       Some(up.avg_da_cd)))]
            /\ derivations' = derivations + 1
            /\ epoch' = EpochAfter(up.branch, da)
            /\ \E io \in (IF save THEN SaveOutcomes ELSE {"ok"}) :
                 /\ io_met' = IF save THEN io ELSE "none"
                 /\ consumer' = ConsumerAfter(data, da, io # "ok")
                 /\ disk' = IF save /\ io # "mkdir"
                            THEN disk \cup {[name |-> cnt,
                                             artifacts |-> ArtifactsWritten(io)]}
                            ELSE disk
                 /\ IF io # "ok"
                    THEN \* _save_measurement raised: lines 154-159 do not run
                         /\ with_pump' = Some(da.w)
                         /\ without_pump' = Some(da.n)
                         /\ used' = [with_pump |-> TRUE, without_pump |-> TRUE]
                         /\ outcome' = [has_pump |-> data.has_pump,
                                        result |-> "OSError"]
                         /\ comp_pc' = IF cnt >= max_measurements
                                       THEN "lock" ELSE "idle"
                         /\ UNCHANGED completed
                    ELSE /\ with_pump' = None
                         /\ without_pump' = None
                         /\ used' = [with_pump |-> FALSE, without_pump |-> FALSE]
                         /\ outcome' = [has_pump |-> data.has_pump,
                                        result |-> "derived"]
                         /\ completed' = completed + 1
                         /\ comp_pc' = IF cnt >= max_measurements
                                       THEN "lock" ELSE "idle"

\* Lines 134-159: both traces are buffered.
ComputeSignalsDerive(data, w1, n1) ==
    LET cnt == count + 1
        ac  == average_count + 1
        fresh == IF data.has_pump THEN [used EXCEPT !.with_pump = FALSE]
                                  ELSE [used EXCEPT !.without_pump = FALSE]
    IN
    \E da \in {compute_da(Val(w1), Val(n1))} :
    /\ count' = cnt
    /\ UNCHANGED <<save, max_measurements, dark_curr, cal, shared,
                   ui_pc, comp_quit, comp_running, done>>
    /\ IF da.raised
       THEN \* compute_da raised: nothing after line 138 runs
            /\ average_count' = ac
            /\ with_pump' = Some(da.w)
            /\ without_pump' = Some(da.n)
            /\ signals' = [signals EXCEPT !.meas_num = Some(cnt)]
            /\ outcome' = [has_pump |-> data.has_pump,
                           result |-> IF Broadcastable(Val(w1).ref, Val(n1).ref)
                                      THEN "FloatingPointError" ELSE "ValueError"]
            /\ used' = fresh
            /\ consumer' = ConsumerAfter(data, da, TRUE)
            /\ io_met' = "none"
            /\ UNCHANGED <<should_reset_averages, avg_da_par, avg_da_perp,
                           avg_da_cd, disk, comp_pc, derivations, completed, epoch>>
       ELSE
       \E up \in {update_averages(cnt, ac, should_reset_averages,
                     [par |-> avg_da_par, perp |-> avg_da_perp, cd |-> avg_da_cd],
                     da.da_par, da.da_perp, da.da_cd)} :
       LET mine == IF data.has_pump THEN da.w ELSE da.n
       IN
       IF up.raised
       THEN \* update_averages raised: nothing after line 139 runs
            /\ average_count' = ac
            /\ with_pump' = Some(da.w)
            /\ without_pump' = Some(da.n)
            /\ signals' = [signals EXCEPT !.meas_num = Some(cnt)]
            /\ outcome' = [has_pump |-> data.has_pump, result |-> "ValueError"]
            /\ used' = fresh
            /\ consumer' = ConsumerAfter(data, da, TRUE)
            /\ io_met' = "none"
            /\ UNCHANGED <<should_reset_averages, avg_da_par, avg_da_perp,
                           avg_da_cd, disk, comp_pc, derivations, completed, epoch>>
       ELSE
            /\ average_count' = up.average_count
            /\ should_reset_averages' = up.should_reset_averages
            /\ avg_da_par' = up.avg_da_par
            /\ avg_da_perp' = up.avg_da_perp
            /\ avg_da_cd' = up.avg_da_cd
            /\ signals' = [signals EXCEPT
                   !.meas_num = Some(cnt),
                   !.new_data = Some(PlotData(mine.par, mine.perp, mine.ref,
                       Some(da.da_par), Some(da.da_perp), Some(da.da_cd),
                       Some(up.avg_da_par), Some(up.avg_da_perp),
                       Some(up.avg_da_cd)))]
            /\ derivations' = derivations + 1
            /\ epoch' = EpochAfter(up.branch, da)
            /\ \E io \in (IF save THEN SaveOutcomes ELSE {"ok"}) :
                 /\ io_met' = IF save THEN io ELSE "none"
                 /\ consumer' = ConsumerAfter(data, da, io # "ok")
                 /\ disk' = IF save /\ io # "mkdir"
                            THEN disk \cup {[name |-> cnt,
                                             artifacts |-> ArtifactsWritten(io)]}
                            ELSE disk
                 /\ IF io # "ok"
                    THEN \* _save_measurement raised: lines 154-159 do not run
                         /\ with_pump' = Some(da.w)
                         /\ without_pump' = Some(da.n)
                         /\ used' = [with_pump |-> TRUE, without_pump |-> TRUE]
                         /\ outcome' = [has_pump |-> data.has_pump,
                                        result |-> "OSError"]
                         /\ UNCHANGED <<comp_pc, completed>>
                    ELSE /\ with_pump' = None
                         /\ without_pump' = None
                         /\ used' = [with_pump |-> FALSE, without_pump |-> FALSE]
                         /\ outcome' = [has_pump |-> data.has_pump,
                                        result |-> "derived"]
                         /\ completed' = completed + 1
                         /\ comp_pc' = IF cnt >= max_measurements
                                       THEN "lock" ELSE "idle"

\* compute_signals taking the acquisition that arrived last as the pumped
\* trace of the pair, whatever its has_pump says.
compute_signals_LatestIsPumped(data) ==
    /\ CompReady
    /\ count < MaxCount
    /\ raw' = Some(data)
    /\ IF CalibrationMissing(cal)
       THEN ComputeSignalsUncalibrated(data)
       ELSE \E md \in {Calibrate(data, cal, dark_curr)} :
            LET w1 == IF data.has_pump THEN Some(md) ELSE with_pump
                n1 == IF data.has_pump THEN without_pump ELSE Some(md)
            IN  IF w1 # None /\ n1 # None
                THEN ComputeSignalsDerive(data, IF data.has_pump THEN w1 ELSE n1,
                                                IF data.has_pump THEN n1 ELSE w1)
                ELSE ComputeSignalsPending(data, md, w1, n1)
    /\ UNCHANGED <<window, exp_running>>

\* compute_signals dropping the acquisitions that arrive after the stop flag
\* was set.
compute_signals_DropsAfterStop(data) ==
    /\ CompReady
    /\ count < MaxCount
    /\ raw' = Some(data)
    /\ IF SHOULD_STOP
       THEN /\ outcome' = [has_pump |-> data.has_pump, result |-> "dropped"]
            /\ io_met' = "none"
            /\ UNCHANGED <<worker, shared, threads, signals, derivations,
                           completed, used, epoch, consumer>>
       ELSE IF CalibrationMissing(cal)
       THEN ComputeSignalsUncalibrated(data)
       ELSE \E md \in {Calibrate(data, cal, dark_curr)} :
            LET w1 == IF data.has_pump THEN Some(md) ELSE with_pump
                n1 == IF data.has_pump THEN without_pump ELSE Some(md)
            IN  IF w1 # None /\ n1 # None
                THEN ComputeSignalsDerive(data, w1, n1)
                ELSE ComputeSignalsPending(data, md, w1, n1)
    /\ UNCHANGED <<window, exp_running>>

compute_signals(data) ==
    /\ CompReady
    /\ count < MaxCount   \* the session is followed for MaxCount attempts
    /\ raw' = Some(data)  \* data is only read: lines 120-122 build new arrays
    /\ IF CalibrationMissing(cal)
       THEN ComputeSignalsUncalibrated(data)
       ELSE \E md \in {Calibrate(data, cal, dark_curr)} :
            LET w1 == IF data.has_pump THEN Some(md) ELSE with_pump
                n1 == IF data.has_pump THEN without_pump ELSE Some(md)
            IN  IF w1 # None /\ n1 # None
                THEN ComputeSignalsDerive(data, w1, n1)
                ELSE ComputeSignalsPending(data, md, w1, n1)
    /\ UNCHANGED <<window, exp_running>>

\* compute_signals going on to the write without taking the mutex.
CompLock_NotTaken ==
    /\ comp_pc = "lock"
    /\ comp_pc' = "write"
    /\ UNCHANGED <<worker, shared, ui_pc, comp_quit, comp_running, done, history>>
    /\ UNCHANGED <<window, exp_running>>

\* Lines 157-159, one step per statement.
CompLock ==
    /\ comp_pc = "lock"
    /\ mutex = "free"
    /\ mutex' = "comp"
    /\ comp_pc' = "write"
    /\ UNCHANGED <<worker, SHOULD_STOP, ui_pc, comp_quit, comp_running, done, history>>
    /\ UNCHANGED <<window, exp_running>>

CompWrite ==
    /\ comp_pc = "write"
    /\ SHOULD_STOP' = TRUE
    /\ comp_pc' = "unlock"
    /\ UNCHANGED <<worker, mutex, ui_pc, comp_quit, comp_running, done, history>>
    /\ UNCHANGED <<window, exp_running>>

CompUnlock ==
    /\ comp_pc = "unlock"
    /\ mutex' = "free"
    /\ comp_pc' = "idle"
    /\ UNCHANGED <<worker, SHOULD_STOP, ui_pc, comp_quit, comp_running, done, history>>
    /\ UNCHANGED <<window, exp_running>>

\* ------------------------------------------------- MainWindow.stop_collecting
\* Line 320: the Stop button was pressed and the UI thread takes the mutex.
StopLock ==
    /\ ~closed
    /\ ui_pc = "idle"
    /\ comp_running
    /\ mutex = "free"
    /\ mutex' = "ui"
    /\ ui_pc' = "stop_write"
    /\ UNCHANGED <<worker, SHOULD_STOP, comp_pc, comp_quit, comp_running, done, history>>
    /\ UNCHANGED <<window, exp_running>>

\* Line 321.
StopWrite ==
    /\ ui_pc = "stop_write"
    /\ SHOULD_STOP' = TRUE
    /\ ui_pc' = "stop_unlock"
    /\ UNCHANGED <<worker, mutex, comp_pc, comp_quit, comp_running, done, history>>
    /\ UNCHANGED <<window, exp_running>>

\* Line 322.
StopUnlock ==
    /\ ui_pc = "stop_unlock"
    /\ mutex' = "free"
    /\ ui_pc' = "stop_quit"
    /\ UNCHANGED <<worker, SHOULD_STOP, comp_pc, comp_quit, comp_running, done, history>>
    /\ UNCHANGED <<window, exp_running>>

\* Lines 324-325: the event loop of the computation thread is told to exit.
StopQuit ==
    /\ ui_pc = "stop_quit"
    /\ comp_quit' = TRUE
    /\ ui_pc' = "stop_wait"
    /\ UNCHANGED <<worker, shared, comp_pc, comp_running, done, history>>
    /\ UNCHANGED <<window, exp_running>>

\* Lines 327-331: wait() returns once the running slot call has returned.
StopWait ==
    /\ ui_pc = "stop_wait"
    /\ comp_pc = "idle"
    /\ comp_running' = FALSE
    /\ ui_pc' = "idle"
    /\ UNCHANGED <<worker, shared, comp_pc, comp_quit, done, history>>
    /\ exp_running' = FALSE
    /\ UNCHANGED window

\* ------------------------------------------------ MainWindow.cleanup_when_done
\* Lines 339-340: the done signal of the experiment worker is handled.
CleanupQuit ==
    /\ ~closed
    /\ ui_pc = "idle"
    /\ done = "queued"
    /\ done' = "handled"
    /\ comp_quit' = TRUE
    /\ ui_pc' = "cleanup_wait"
    /\ UNCHANGED <<worker, shared, comp_pc, comp_running, history>>
    /\ UNCHANGED <<window, exp_running>>

\* cleanup_when_done going on to the flag without waiting for the threads.
CleanupWait_NoWait ==
    /\ ui_pc = "cleanup_wait"
    /\ ui_pc' = "cleanup_lock"
    /\ UNCHANGED <<worker, shared, comp_pc, comp_quit, comp_running, done, history>>
    /\ UNCHANGED <<window, exp_running>>

\* Lines 342-344.
CleanupWait ==
    /\ ui_pc = "cleanup_wait"
    /\ comp_pc = "idle"
    /\ comp_running' = FALSE
    /\ ui_pc' = "cleanup_lock"
    /\ UNCHANGED <<worker, shared, comp_pc, comp_quit, done, history>>
    /\ exp_running' = FALSE
    /\ UNCHANGED window

\* Line 346.
CleanupLock ==
    /\ ui_pc = "cleanup_lock"
    /\ mutex = "free"
    /\ mutex' = "ui"
    /\ ui_pc' = "cleanup_write"
    /\ UNCHANGED <<worker, SHOULD_STOP, comp_pc, comp_quit, comp_running, done, history>>
    /\ UNCHANGED <<window, exp_running>>

\* Line 347.
CleanupWrite ==
    /\ ui_pc = "cleanup_write"
    /\ SHOULD_STOP' = FALSE
    /\ ui_pc' = "cleanup_unlock"
    /\ UNCHANGED <<worker, mutex, comp_pc, comp_quit, comp_running, done, history>>
    /\ UNCHANGED <<window, exp_running>>

\* Lines 348-354.
CleanupUnlock ==
    /\ ui_pc = "cleanup_unlock"
    /\ mutex' = "free"
    /\ ui_pc' = "idle"
    /\ UNCHANGED <<worker, SHOULD_STOP, comp_pc, comp_quit, comp_running, done, history>>
    /\ UNCHANGED <<window, exp_running>>

\* ------------------------------------------------------- experiment worker
\* The acquisition source polls the stop flag under the mutex after an
\* acquisition and, once it reads True, stops and emits its done signal.
ExpDone ==
    /\ exp_running
    /\ done = "no"
    /\ mutex = "free"
    /\ SHOULD_STOP
    /\ done' = "queued"
    /\ UNCHANGED <<worker, shared, comp_pc, ui_pc, comp_quit, comp_running, history>>
    /\ UNCHANGED <<window, exp_running>>

\* The length of the traces the oscilloscope delivers in this session: the
\* points of the preamble (TraceLen as long as no preamble was stored).
TraceLength == IF "points" \in DOMAIN cal THEN Val(cal.points) ELSE TraceLen

Next ==
    \/ \E preamble \in Preambles : store_preamble(preamble)
    \/ \E shape \in RawShapes, has_pump \in BOOLEAN :
           compute_signals(RawData(TraceLength, shape, has_pump))
    \/ reset_averages
    \/ CompLock
    \/ CompWrite
    \/ CompUnlock
    \/ StopLock
    \/ StopWrite
    \/ StopUnlock
    \/ StopQuit
    \/ StopWait
    \/ ExpDone
    \/ CleanupQuit
    \/ CleanupWait
    \/ CleanupLock
    \/ CleanupWrite
    \/ CleanupUnlock

Spec == Init /\ [][Next]_vars

\* ------------------------------------------------------------ main window
\* Sessions one run of the program is followed for.
MaxSessions == 2

\* MainWindow.__init__: no worker exists and no thread runs; the worker
\* variables hold the values of a worker that never ran.
InitUi ==
    /\ InitWorker(UiSettings(0, FALSE, None, None, None))
    /\ SHOULD_STOP = FALSE
    /\ mutex = "free"
    /\ comp_pc = "idle"
    /\ ui_pc = "idle"
    /\ comp_quit = FALSE
    /\ comp_running = FALSE
    /\ done = "no"
    /\ signals = [time_axis |-> None, meas_num |-> None, new_data |-> None]
    /\ outcome = [has_pump |-> FALSE, result |-> "none"]
    /\ derivations = 0
    /\ completed = 0
    /\ used = [with_pump |-> FALSE, without_pump |-> FALSE]
    /\ epoch = NoEpoch
    /\ raw = None
    /\ consumer = None
    /\ io_met = "none"
    /\ collecting = FALSE
    /\ closed = FALSE
    /\ exp_running = FALSE
    /\ save_checked = FALSE
    /\ save_data_dir = None
    /\ save_loc = ""
    /\ dirs \in [Dirs -> DirStates]
    /\ save_dir = None
    /\ sessions = 0
    /\ start = [stop_flag |-> FALSE, checked |-> None, confirmed |-> FALSE,
                cleared |-> None, lost |-> FALSE]

\* The acquisition controls are enabled (_enable_acq_controls): the UI thread
\* is in no handler and no session is running.
AcqControlsEnabled ==
    ~closed /\ ui_pc = "idle" /\ ~comp_running /\ ~exp_running

\* save_loc_set_state: the user ticks or unticks the save checkbox.
save_loc_set_state ==
    /\ AcqControlsEnabled
    /\ save_checked' = ~save_checked
    /\ UNCHANGED <<worker, shared, threads, history, exp_running, collecting, closed,
                   save_data_dir, save_loc, dirs, save_dir, sessions, start>>

\* get_save_location: the directory picked in the dialog is stored and shown.
get_save_location(d) ==
    /\ AcqControlsEnabled
    /\ save_checked      \* the browse button is enabled with the checkbox
    /\ save_data_dir' = Some(d)
    /\ save_loc' = d
    /\ UNCHANGED <<worker, shared, threads, history, exp_running, collecting, closed,
                   save_checked, dirs, save_dir, sessions, start>>

\* The user types a path into the enabled save_loc field.
edit_save_loc(d) ==
    /\ AcqControlsEnabled
    /\ save_checked
    /\ save_loc' = d
    /\ UNCHANGED <<worker, shared, threads, history, exp_running, collecting, closed,
                   save_checked, save_data_dir, dirs, save_dir, sessions, start>>

\* What directory d holds now: the artifacts of the running or last session
\* are in its save_dir.
Contents(d) == IF save_dir = Some(d) /\ disk # {} THEN "files" ELSE dirs[d]

\* ComputationWorker.__init__ as a step: the fields of the new worker.
CreateWorker(settings) ==
    /\ save' = settings.save
    /\ disk' = {}
    /\ count' = 0
    /\ average_count' = 0
    /\ should_reset_averages' = FALSE
    /\ max_measurements' = settings.num_measurements
    /\ avg_da_par' = ZerosV(POINTS)
    /\ avg_da_perp' = ZerosV(POINTS)
    /\ avg_da_cd' = ZerosR(POINTS)
    /\ with_pump' = None
    /\ without_pump' = None
    /\ cal' = [t_res |-> None,
               v_offset_par |-> None, v_offset_perp |-> None,
               v_offset_ref |-> None, v_offset_shutter |-> None,
               v_scale_par |-> None, v_scale_perp |-> None,
               v_scale_ref |-> None, v_scale_shutter |-> None]
    /\ dark_curr' = [par |-> settings.dark_curr_par,
                     perp |-> settings.dark_curr_perp,
                     ref |-> settings.dark_curr_ref]

\* _saving_should_proceed: the location held in save_data_dir must exist and,
\* when it holds anything, the user must accept the overwrite warning.
SavingShouldProceed(answer) ==
    /\ save_data_dir # None
    /\ Contents(Val(save_data_dir)) # "missing"
    /\ Contents(Val(save_data_dir)) = "files" => answer

\* start_collecting: the Start button.  answer is what the user replies to
\* the overwrite warning if it is shown.
start_collecting(answer) ==
    /\ AcqControlsEnabled
    /\ done # "queued"   \* a completion posted earlier is handled first
    /\ sessions < MaxSessions
    /\ IF save_checked /\ ~SavingShouldProceed(answer)
       THEN UNCHANGED vars   \* should_quit, line 150
       ELSE IF save_checked /\ Contents(save_loc) = "missing"
       THEN UNCHANGED vars   \* iterdir raises in the constructor, line 153
       ELSE /\ CreateWorker(UiSettings(1, save_checked, None, None, None))
            /\ save_dir' = IF save_checked THEN Some(save_loc) ELSE None
            /\ dirs' = [d \in Dirs |->
                          IF save_checked /\ d = save_loc THEN "empty" ELSE Contents(d)]
            /\ start' = [stop_flag |-> SHOULD_STOP,
                         checked |-> IF save_checked THEN save_data_dir ELSE None,
                         confirmed |-> save_checked
                                       /\ Contents(Val(save_data_dir)) = "files",
                         cleared |-> IF save_checked THEN Some(save_loc) ELSE None,
                         lost |-> save_checked /\ Contents(save_loc) = "files"]
            /\ sessions' = sessions + 1
            /\ comp_pc' = "idle"
            /\ comp_quit' = FALSE
            /\ comp_running' = TRUE
            /\ exp_running' = TRUE
            /\ done' = "no"
            /\ signals' = [time_axis |-> None, meas_num |-> None, new_data |-> None]
            /\ outcome' = [has_pump |-> FALSE, result |-> "none"]
            /\ derivations' = 0
            /\ completed' = 0
            /\ used' = [with_pump |-> FALSE, without_pump |-> FALSE]
            /\ epoch' = NoEpoch
            /\ raw' = None
            /\ consumer' = None
            /\ io_met' = "none"
            /\ UNCHANGED <<shared, ui_pc, collecting, closed, save_checked,
                           save_data_dir, save_loc>>

\* closeEvent: the threads are quit and awaited when collecting is set, and
\* the event is accepted.
closeEvent ==
    /\ ~closed
    /\ ui_pc = "idle"
    /\ collecting => comp_pc = "idle"
    /\ comp_quit' = (IF collecting THEN TRUE ELSE comp_quit)
    /\ comp_running' = (IF collecting THEN FALSE ELSE comp_running)
    /\ exp_running' = (IF collecting THEN FALSE ELSE exp_running)
    /\ closed' = TRUE
    /\ UNCHANGED <<worker, shared, comp_pc, ui_pc, done, history, collecting,
                   save_checked, save_data_dir, save_loc, dirs, save_dir, sessions, start>>

\* What the oscilloscope delivers in the sessions followed from the window.
UiPreamble == Preamble(20, 1, 0, 1, 0, 1, 0, TraceLen)

UiShape == [par |-> <<1, 1>>, perp |-> <<1, 1>>, ref |-> <<1, 1>>]

NextUi ==
    \/ save_loc_set_state
    \/ \E d \in Dirs : get_save_location(d)
    \/ \E d \in Dirs : edit_save_loc(d)
    \/ \E answer \in BOOLEAN : start_collecting(answer)
    \/ closeEvent
    \/ store_preamble(UiPreamble)
    \/ \E has_pump \in BOOLEAN : compute_signals(RawData(TraceLength, UiShape, has_pump))
    \/ CompLock
    \/ CompWrite
    \/ CompUnlock
    \/ StopLock
    \/ StopWrite
    \/ StopUnlock
    \/ StopQuit
    \/ StopWait
    \/ ExpDone
    \/ CleanupQuit
    \/ CleanupWait
    \/ CleanupLock
    \/ CleanupWrite
    \/ CleanupUnlock

SpecUi == InitUi /\ [][NextUi]_vars

\* ================================================================= claims
\* compute_signals is not executing on the computation thread.
NotExecuting == comp_pc = "idle"

\* The step is a compute_signals call that incremented the count.
CountStep == count' = count + 1

\* The step is a compute_signals call that emitted derived signals.
DeriveStep == derivations' = derivations + 1

\* C1: a call derives (increments the count and emits derived signals) exactly
\* when the call before it did not derive and was of the opposite kind; two
\* consecutive acquisitions of one kind never trigger a derivation, and the
\* second replaces the first in its slot.
C1_PairingIff ==
    [][ /\ CountStep <=> DeriveStep
        /\ CountStep =>
             outcome.result = "pending" /\ outcome'.has_pump # outcome.has_pump
        /\ (outcome.result = "pending" /\ outcome'.has_pump # outcome.has_pump)
             => CountStep
        /\ (outcome' # outcome /\ outcome'.result = "pending") =>
             LET shown == Val(signals'.new_data)
                 trace == Some(MeasurementData(shown.par, shown.perp, shown.ref))
             IN  IF outcome'.has_pump THEN with_pump' = trace
                                      ELSE without_pump' = trace
      ]_vars

\* C2: every derivation reads traces that no earlier derivation has read: the
\* trace left in the other slot was ingested after the previous derivation.
C2_NoStaleHalf ==
    [][ DeriveStep =>
          IF outcome'.has_pump THEN ~used.without_pump ELSE ~used.with_pump
      ]_vars

\* C3: after a deriving call both slots are empty, and whenever
\* compute_signals is not executing at most one slot is populated.
C3_AtMostOneSlot ==
    /\ outcome.result = "derived" /\ NotExecuting =>
         with_pump = None /\ without_pump = None
    /\ NotExecuting => with_pump = None \/ without_pump = None

\* C4: whenever compute_signals is not executing, the measurement count
\* equals the number of derivations made since the worker was created.
C4_CountIsDerivations == NotExecuting => count = derivations

\* No handler of the main window has touched the flag in this session.
NoOtherWriter == ui_pc = "idle" /\ comp_running

\* C5: with max_measurements = m >= 1 and no other writer, the stop flag is
\* false as long as fewer than m derivations were made, and true once the
\* call completing the m-th derivation has returned.
C5_StopAtBudget ==
    (max_measurements >= 1 /\ NoOtherWriter) =>
        /\ derivations < max_measurements => ~SHOULD_STOP
        /\ (completed >= max_measurements /\ NotExecuting) => SHOULD_STOP

\* C6: within a session, whenever compute_signals is not executing and
\* count >= max_measurements, the stop flag is true, however the last call
\* ended.
C6_StopRequested ==
    (NoOtherWriter /\ NotExecuting /\ count >= max_measurements) => SHOULD_STOP

\* C7: each thread writes the stop flag only while it holds the mutex, and
\* holds the mutex only from its lock() to its unlock() around that write.
C7_MutexDiscipline ==
    /\ mutex = "comp" <=> comp_pc \in {"write", "unlock"}
    /\ mutex = "ui" <=> ui_pc \in {"stop_write", "stop_unlock",
                                   "cleanup_write", "cleanup_unlock"}

\* C7 witness: the main window wrote the flag under the mutex while the
\* computation thread is blocked in lock().
C7_Witness ==
    /\ ui_pc = "stop_unlock" /\ mutex = "ui" /\ SHOULD_STOP
    /\ comp_pc = "lock"

\* The arithmetic mean of an epoch's k samples, from their sums.
MeanV(sum, k) == [i \in 1..Len(sum) |-> VScale(Rat(1, k), sum[i])]

MeanR(sum, k) == [i \in 1..Len(sum) |-> RMul(Rat(1, k), sum[i])]

\* C8: after the k-th sample of an averaging epoch each running average is
\* the arithmetic mean of the epoch's k samples of that signal.
C8_AverageIsMean ==
    epoch.k >= 1 =>
        /\ avg_da_par = MeanV(epoch.par, epoch.k)
        /\ avg_da_perp = MeanV(epoch.perp, epoch.k)
        /\ avg_da_cd = MeanR(epoch.cd, epoch.k)

\* C9: when a reset is pending and a derived sample v is produced, the
\* running averages equal v and average_count is 1 after that derivation.
C9_ResetReplaces ==
    [][ (should_reset_averages /\ DeriveStep) =>
          LET shown == Val(signals'.new_data)
          IN  /\ avg_da_par' = Val(shown.da_par)
              /\ avg_da_perp' = Val(shown.da_perp)
              /\ avg_da_cd' = Val(shown.da_cd)
              /\ average_count' = 1
      ]_vars

\* C9 witness: a reset requested after earlier derivations was consumed by
\* the sample just derived.
C9_Witness ==
    /\ count >= 2 /\ derivations >= 2
    /\ outcome.result = "derived"
    /\ average_count = 1
    /\ ~should_reset_averages
    /\ avg_da_par = Val(Val(signals.new_data).da_par)
    /\ avg_da_par # ZerosV(Len(avg_da_par))

\* C10: the derived sample that follows a reset request consumes it, also
\* when the request precedes the first derivation: the flag is false after
\* that sample.
C10_ResetConsumedByNext ==
    [][ (should_reset_averages /\ DeriveStep) => ~should_reset_averages' ]_vars

\* The step raised the pending-reset flag: a reset_averages call.
ResetRequestStep == ~should_reset_averages /\ should_reset_averages'

\* The step lowered the pending-reset flag: update_averages consumed it.
ResetConsumeStep == should_reset_averages /\ ~should_reset_averages'

\* C11: reset_averages changes only the pending-reset flag (the averages,
\* average_count, the count, both slots and the stop flag keep their values),
\* and the call that consumes the reset restarts average_count at 1 while the
\* count goes on to its next value.
C11_ResetFrame ==
    [][ /\ ResetRequestStep =>
             UNCHANGED <<avg_da_par, avg_da_perp, avg_da_cd, average_count,
                         count, with_pump, without_pump, SHOULD_STOP>>
        /\ ResetConsumeStep =>
             average_count' = 1 /\ count' = count + 1
      ]_vars

\* C11 witness: a reset is pending on a worker that holds averages of an
\* earlier derivation and a buffered trace.
C11_Witness ==
    /\ should_reset_averages
    /\ count = 1 /\ average_count = 1 /\ derivations = 1
    /\ avg_da_par # ZerosV(POINTS)
    /\ with_pump # None \/ without_pump # None

\* The calibrated trace of one channel as the specification states it:
\* value * scale + offset, minus the dark current of that channel when one
\* is configured.
CalibratedChannel(values, scale, offset, dark) ==
    [i \in 1..Len(values) |->
        IF dark = None THEN Num(values[i] * Val(scale) + Val(offset), 0)
        ELSE Num(values[i] * Val(scale) + Val(offset) - Val(dark), 0)]

CalibratedTrace(r) ==
    [par |-> CalibratedChannel(r.par, cal.v_scale_par, cal.v_offset_par,
                               dark_curr.par),
     perp |-> CalibratedChannel(r.perp, cal.v_scale_perp, cal.v_offset_perp,
                                dark_curr.perp),
     ref |-> CalibratedChannel(r.ref, cal.v_scale_ref, cal.v_offset_ref,
                               dark_curr.ref)]

\* The pair a counting call derives from: the acquisition it ingested and the
\* trace buffered in the other slot.
Ingested == CalibratedTrace(Val(raw'))

PairWith == IF Val(raw').has_pump THEN Ingested ELSE Val(with_pump)

PairWithout == IF Val(raw').has_pump THEN Val(without_pump) ELSE Ingested

Samples(trace, channels) ==
    {trace[c][i].m : c \in channels, i \in 1..Len(trace.par)}

\* A reference sample of the pair is exactly 0.
ZeroInRef == 0 \in Samples(PairWith, {"ref"}) \cup Samples(PairWithout, {"ref"})

\* All parallel and perpendicular samples of the pair are non-zero and of
\* one sign.
SignalsOfOneSign ==
    LET sig == Samples(PairWith, {"par", "perp"})
                 \cup Samples(PairWithout, {"par", "perp"})
    IN  (\A x \in sig : x > 0) \/ (\A x \in sig : x < 0)

\* C12: a completed pair with zero reference samples and non-zero parallel
\* and perpendicular samples of one sign never makes compute_signals raise:
\* the call returns normally with the derived signals, the count incremented,
\* the averages updated and the slots cleared (the storage not failing).
C12_ZeroRefNeverRaises ==
    [][ (CountStep /\ ZeroInRef /\ SignalsOfOneSign
           /\ outcome'.result # "OSError") =>
          /\ outcome'.result = "derived"
          /\ DeriveStep
          /\ avg_da_par' = Val(Val(signals'.new_data).da_par)
                \/ average_count' > 1
          /\ with_pump' = None /\ without_pump' = None
      ]_vars

\* The step is a compute_signals call (it left its record in the history).
CallStep == raw' # raw \/ outcome' # outcome

\* C13: a compute_signals call made before any store_preamble fails with an
\* error, whichever has_pump it carries, and leaves both slots, the count,
\* average_count, the averages and the stop flag as they were, emitting no
\* signal.
C13_UncalibratedCallFails ==
    [][ (CallStep /\ signals.time_axis = None) =>
          /\ outcome'.result = "TypeError"
          /\ outcome'.has_pump = Val(raw').has_pump
          /\ UNCHANGED <<with_pump, without_pump, count, average_count,
                         avg_da_par, avg_da_perp, avg_da_cd, SHOULD_STOP,
                         signals>>
      ]_vars

\* C13 witness: a with-pump acquisition was refused on a worker that never
\* received a preamble.
C13_Witness ==
    /\ signals.time_axis = None
    /\ outcome = [has_pump |-> TRUE, result |-> "TypeError"]
    /\ raw # None /\ Val(raw).has_pump

\* The slot of the kind of the acquisition the step ingested.
SlotOfIngested == IF Val(raw').has_pump THEN with_pump' ELSE without_pump'

DerivedFields(shown) ==
    {shown.da_par, shown.da_perp, shown.da_cd,
     shown.avg_da_par, shown.avg_da_perp, shown.avg_da_cd}

\* C15: a compute_signals call that returns normally emits a new_data
\* snapshot with the calibrated par, perp and ref traces of the acquisition
\* it ingested; the six derived fields are all present if the call completed
\* a pair and all None otherwise.
C15_SnapshotOfIngested ==
    [][ (CallStep /\ outcome'.result \in {"pending", "derived"}) =>
          /\ signals'.new_data # None
          /\ LET shown == Val(signals'.new_data)
             IN  /\ MeasurementData(shown.par, shown.perp, shown.ref) = Ingested
                 /\ IF outcome'.result = "derived"
                    THEN None \notin DerivedFields(shown)
                    ELSE DerivedFields(shown) = {None}
      ]_vars

\* The step emitted meas_num (the values of one session never repeat).
MeasNumStep == signals'.meas_num # signals.meas_num

\* C16: meas_num is emitted by exactly the calls that complete a derivation,
\* and the value emitted is the number of derivations completed so far, so
\* that a session emits 1, 2, 3, ...
C16_MeasNumPerDerivation ==
    [][ /\ MeasNumStep <=> DeriveStep
        /\ MeasNumStep => signals'.meas_num = Some(derivations')
      ]_vars

\* C17: a call that does not complete a pair changes only the slot of the
\* kind it ingested: the count, average_count, the averages, the
\* pending-reset flag, the other slot and the stop flag keep their values, no
\* meas_num is emitted and nothing is written to the save directory.
C17_PendingFrame ==
    [][ (CallStep /\ outcome'.result = "pending") =>
          /\ UNCHANGED <<count, average_count, avg_da_par, avg_da_perp,
                         avg_da_cd, should_reset_averages, SHOULD_STOP, disk>>
          /\ IF Val(raw').has_pump THEN without_pump' = without_pump
                                   ELSE with_pump' = with_pump
          /\ SlotOfIngested # None
          /\ ~MeasNumStep
      ]_vars

\* C17 witness: an acquisition is buffered by a saving worker that has a
\* derivation on disk, averages of it and a reset pending.
C17_Witness ==
    /\ outcome.result = "pending"
    /\ with_pump # None /\ without_pump = None
    /\ count = 1 /\ average_count = 1 /\ should_reset_averages
    /\ save /\ disk = {[name |-> 1, artifacts |-> 9]}
    /\ signals.meas_num = Some(1)

\* The two traces of the pair are equal sample by sample and no sample is 0.
EqualNonZeroPair ==
    /\ PairWith = PairWithout
    /\ 0 \notin Samples(PairWith, {"par", "perp", "ref"})

\* C18: a pair of equal traces with non-zero samples derives da_par = 0,
\* da_perp = 0 and da_cd = 0 at every sample, and on a fresh worker the call
\* emits them and leaves the count at 1.
C18_EqualTracesGiveZero ==
    [][ (CountStep /\ EqualNonZeroPair) =>
          LET da == compute_da(PairWith, PairWithout)
              n == Len(PairWith.par)
          IN  /\ ~da.raised
              /\ da.da_par = ZerosV(n) /\ da.da_perp = ZerosV(n)
              /\ da.da_cd = ZerosR(n)
              /\ count = 0 =>
                    /\ count' = 1 /\ DeriveStep
                    /\ Val(signals'.new_data).da_par = Some(ZerosV(n))
                    /\ Val(signals'.new_data).da_perp = Some(ZerosV(n))
                    /\ Val(signals'.new_data).da_cd = Some(ZerosR(n))
      ]_vars

\* C18 witness: the first derivation of a worker came out zero everywhere
\* from traces without a zero sample.
C18_Witness ==
    /\ count = 1 /\ derivations = 1 /\ outcome.result = "derived"
    /\ LET shown == Val(signals.new_data)
       IN  /\ \A i \in 1..Len(shown.par) :
                 shown.par[i].m # 0 /\ shown.perp[i].m # 0
                   /\ shown.ref[i].m # 0 /\ shown.ref[i].e = 0
           /\ shown.da_par = Some(ZerosV(Len(shown.par)))
           /\ shown.da_perp = Some(ZerosV(Len(shown.par)))
           /\ shown.da_cd = Some(ZerosR(Len(shown.par)))
           /\ shown.avg_da_cd = shown.da_cd

\* Every write to the save directory so far went through.
StorageNeverFailed ==
    derivations = completed /\ \A d \in disk : d.artifacts = 9

\* C19: with save enabled (and the storage never failing) the save directory
\* holds exactly the subdirectories 1..k for the k derivations completed,
\* each with its nine artifacts; with save disabled it stays empty.
C19_OneDirectoryPerDerivation ==
    /\ (save /\ NotExecuting /\ StorageNeverFailed) =>
          disk = {[name |-> k, artifacts |-> 9] : k \in 1..completed}
    /\ ~save => disk = {}

\* The step is the write of line 158 by compute_signals.
CompWriteStep == comp_pc = "write" /\ comp_pc' = "unlock"

\* C20: in a session (budget m >= 1, every attempt so far a derivation that
\* returned normally) compute_signals writes the stop flag only in the call in which
\* the count reaches m, and so at most once: the flag was not set before by
\* the pipeline.
C20_StopWrittenOnce ==
    [][ (CompWriteStep /\ max_measurements >= 1 /\ count = completed) =>
          /\ count = max_measurements
          /\ NoOtherWriter => ~SHOULD_STOP
      ]_vars

\* The fields a preamble carries.
PreambleFields ==
    {"t_res", "v_scale_par", "v_offset_par", "v_scale_perp", "v_offset_perp",
     "v_scale_ref", "v_offset_ref", "points"}

\* The worker holds the fields of preamble p.
HoldsPreamble(p) ==
    \A f \in PreambleFields : f \in DOMAIN cal /\ cal[f] = Some(p[f])

\* C21: after store_preamble(p) the worker's t_res, scales, offsets and
\* points are those of p, and the call emits time_axis with the value
\* t_res * i for i = 0 .. points - 1.
C21_PreambleStored ==
    [][ (cal' # cal \/ signals'.time_axis # signals.time_axis) =>
          \E p \in Preambles :
             /\ HoldsPreamble(p)'
             /\ signals'.time_axis # None
             /\ Len(Val(signals'.time_axis)) = p.points
             /\ \A i \in 0..(p.points - 1) :
                   Val(signals'.time_axis)[i + 1] = p.t_res * i
      ]_vars

\* C21 witness: the preamble with non-unit scale and offset was stored and
\* its time axis emitted.
C21_Witness ==
    /\ HoldsPreamble(Preamble(20, 2, 0, 1, 1, 1, 0, POINTS))
    /\ signals.time_axis # None
    /\ Val(signals.time_axis)[POINTS] = 20 * (POINTS - 1)

\* C22: on a worker that has not received a preamble every calibration
\* field, points included, is present and None.
C22_FreshCalibrationNone ==
    signals.time_axis = None =>
        \A f \in PreambleFields : f \in DOMAIN cal /\ cal[f] = None

\* C23: the arrays buffered in the slots are the worker's alone: what the
\* presentation consumer received in a snapshot is never altered by a later
\* in-place change of the worker (seen after calls that returned normally).
C23_SnapshotNeverAltered ==
    (consumer # None /\ outcome.result \in {"pending", "derived"}) =>
        Val(consumer).reads = Val(consumer).received

\* A reference trace with exactly its zero samples replaced by 1e-12.
ZerosReplaced(before, after) ==
    /\ Len(after) = Len(before)
    /\ \A i \in 1..Len(before) :
         after[i] = IF before[i].m = 0 THEN [m |-> 1, e |-> -12] ELSE before[i]

\* C24: the recovery of compute_da replaces by 1e-12 exactly the zero
\* samples of with_pump.ref and of without_pump.ref, leaves the other
\* reference samples and all par/perp samples as they were, and is not
\* repeated: when the recomputation fails the call raises with the traces as
\* the one recovery left them.
C24_RecoveryExact ==
    [][ CountStep =>
          \E w \in {PairWith}, n \in {PairWithout} :
          \E da \in {compute_da(w, n)} :
              /\ da.w.par = w.par /\ da.w.perp = w.perp
              /\ da.n.par = n.par /\ da.n.perp = n.perp
              /\ IF da.recovered
                 THEN ZerosReplaced(w.ref, da.w.ref) /\ ZerosReplaced(n.ref, da.n.ref)
                 ELSE da.w.ref = w.ref /\ da.n.ref = n.ref
              /\ (ZeroInRef /\ Len(w.ref) = Len(n.ref)) => da.recovered
              /\ da.raised =>
                    /\ ~DeriveStep
                    /\ outcome'.result \in {"FloatingPointError", "ValueError"}
                    /\ with_pump' = Some(da.w) /\ without_pump' = Some(da.n)
              /\ (~da.raised /\ outcome'.result = "derived") =>
                    Val(signals'.new_data).ref
                      = (IF Val(raw').has_pump THEN da.w.ref ELSE da.n.ref)
      ]_vars

\* C24 witness: the recovery replaced the zero sample of a buffered reference
\* trace, kept its negative sample, and the recomputation failed.
C24_Witness ==
    /\ outcome.result = "FloatingPointError"
    /\ with_pump # None /\ without_pump # None
    /\ \E i, j \in 1..Len(Val(with_pump).ref) :
         /\ Val(with_pump).ref[i] = [m |-> 1, e |-> -12]
         /\ Val(with_pump).ref[j] = [m |-> -1, e |-> 0]
    /\ \A i \in 1..Len(Val(without_pump).ref) :
         Val(without_pump).ref[i] = [m |-> 1, e |-> -12]

\* The slot of the other kind than the acquisition the step ingested.
OtherSlot == IF Val(raw').has_pump THEN without_pump ELSE with_pump

\* C25: once the stop flag is set a further compute_signals call is
\* processed as before: the acquisition is stored in its slot, and when it
\* completes a pair the count is incremented (past max_measurements if need
\* be) and the derivation updates the averages and emits its snapshot.
C25_ProcessedAfterStop ==
    [][ (CallStep /\ SHOULD_STOP /\ signals.time_axis # None) =>
          IF OtherSlot = None
          THEN /\ outcome'.result = "pending"
               /\ SlotOfIngested = Some(Ingested)
          ELSE /\ CountStep
               /\ outcome'.result \in
                    {"derived", "FloatingPointError", "ValueError", "OSError"}
               /\ outcome'.result = "derived" =>
                    /\ DeriveStep
                    /\ None \notin DerivedFields(Val(signals'.new_data))
                    /\ Some(avg_da_par') = Val(signals'.new_data).avg_da_par
      ]_vars

\* C25 witness: with a budget of one, a second derivation was made after the
\* flag was set and the count is past the budget.
C25_Witness ==
    /\ SHOULD_STOP
    /\ max_measurements = 1 /\ count = 2 /\ completed = 2
    /\ outcome.result = "derived"
    /\ signals.meas_num = Some(2)

\* C26: when the measurement directory cannot be created or an artifact
\* cannot be written, the error leaves compute_signals (nothing after
\* line 153 runs) and what was written before the failure stays on disk.
C26_SaveFailurePropagates ==
    [][ (CallStep /\ io_met' \in {"mkdir", "first", "seventh"}) =>
          /\ outcome'.result = "OSError"
          /\ comp_pc' = "idle" /\ completed' = completed
          /\ with_pump' # None /\ without_pump' # None
          /\ disk \subseteq disk'
          /\ io_met' = "mkdir" => disk' = disk
          /\ io_met' = "first" =>
                disk' = disk \cup {[name |-> count', artifacts |-> 0]}
          /\ io_met' = "seventh" =>
                disk' = disk \cup {[name |-> count', artifacts |-> 6]}
      ]_vars

\* C26 witness: the seventh artifact could not be written; the six traces
\* written before it are on disk.
C26_Witness ==
    /\ io_met = "seventh" /\ outcome.result = "OSError"
    /\ disk = {[name |-> 1, artifacts |-> 6]}
    /\ derivations = 1 /\ completed = 0

\* The call is at the lock, the write or the unlock of lines 157-159.
RequestingStop == comp_pc \in {"lock", "write", "unlock"}

\* C30: a call that completes a pair increments both counts and emits
\* meas_num before it derives, updates the averages and emits new_data before
\* it persists, persists before it clears the slots, and requests the stop
\* only after all of that: a call that fails at one step has done the steps
\* before it and none after, and the stop flag is written only once the
\* snapshot of the last measurement is emitted and its artifacts are on disk.
C30_OrderWithinDerivation ==
    [][ /\ (CallStep /\ outcome'.result \in {"FloatingPointError", "ValueError"}) =>
             /\ count' = count + 1 /\ average_count' = average_count + 1
             /\ signals'.meas_num = Some(count')
             /\ signals'.new_data = signals.new_data
             /\ UNCHANGED <<avg_da_par, avg_da_perp, avg_da_cd, disk>>
             /\ with_pump' # None /\ without_pump' # None
             /\ ~RequestingStop'
        /\ (CallStep /\ outcome'.result = "OSError") =>
             /\ count' = count + 1
             /\ signals'.meas_num = Some(count')
             /\ None \notin DerivedFields(Val(signals'.new_data))
             /\ Some(avg_da_par') = Val(signals'.new_data).avg_da_par
             /\ with_pump' # None /\ without_pump' # None
             /\ ~RequestingStop'
        /\ RequestingStop' =>
             /\ outcome'.result = "derived"
             /\ count' >= max_measurements
             /\ signals'.meas_num = Some(count')
             /\ None \notin DerivedFields(Val(signals'.new_data))
             /\ save => [name |-> count', artifacts |-> 9] \in disk'
             /\ with_pump' = None /\ without_pump' = None
        /\ SHOULD_STOP' # SHOULD_STOP /\ NoOtherWriter => RequestingStop
      ]_vars

\* C30 witness: a saving worker is about to write the stop flag; the
\* snapshot of its measurement is out and the nine artifacts are on disk.
C30_Witness ==
    /\ comp_pc = "write" /\ ~SHOULD_STOP
    /\ save /\ count = 1 /\ disk = {[name |-> 1, artifacts |-> 9]}
    /\ signals.meas_num = Some(1)
    /\ signals.new_data # None
    /\ with_pump = None /\ without_pump = None

\* ------------------------------------------------------------------- C27
\* C27: the directory whose contents the ComputationWorker constructor
\* deletes at a session start is the directory _saving_should_proceed has
\* just checked for that start.
C27_ClearedIsChecked ==
    (sessions >= 1 /\ start.cleared # None) => start.cleared = start.checked

\* ------------------------------------------------------------------- C28
\* A step of closeEvent.
CloseStep == ~closed /\ closed'

\* C28: when the window is closed while both worker threads run, closeEvent
\* has quit them and both have finished by the time the event is accepted.
C28_CloseStopsThreads ==
    [][(CloseStep /\ comp_running /\ exp_running)
          => (~comp_running' /\ ~exp_running')]_vars

\* ------------------------------------------------------------------- C29
\* C29: whenever start_collecting has created the workers and started the
\* threads, the stop flag was false at that moment.
C29_StartsWithFlagFalse == sessions >= 1 => ~start.stop_flag

\* ------------------------------------------------------------------- C31
\* The averaging count relative to the measurement count between calls.
AverageCountInRange ==
    /\ 0 <= average_count
    /\ average_count <= count
    /\ count >= 1 => average_count >= 1

\* C31: whenever compute_signals is not executing, 0 <= average_count <=
\* count and average_count >= 1 once count >= 1; and average_count stays
\* equal to count over every step that does not consume a reset.
C31_AverageCountBounds ==
    /\ [](NotExecuting => AverageCountInRange)
    /\ [](count = 0 => average_count = 0)
    /\ [][(average_count = count /\ ~ResetConsumeStep) => average_count' = count']_vars

\* A reset was consumed by the second derivation: the averaging count is
\* back at 1 while the measurement count is 2.
C31_Witness ==
    /\ NotExecuting
    /\ count = 2 /\ average_count = 1
    /\ derivations = 2 /\ ~should_reset_averages

\* ------------------------------------------------------------------- C32
\* What completing the pair (w, n) yields from the state before the call,
\* when _save_measurement meets io: the derived signals, the averages, the
\* counters and the slots.  Which half arrived last is not an argument.
PairResult(w, n, io) ==
    LET da == compute_da(w, n)
        up == update_averages(count + 1, average_count + 1, should_reset_averages,
                  [par |-> avg_da_par, perp |-> avg_da_perp, cd |-> avg_da_cd],
                  da.da_par, da.da_perp, da.da_cd)
        kept == [derived |-> None,
                 avg |-> <<avg_da_par, avg_da_perp, avg_da_cd>>,
                 count |-> count + 1, average_count |-> average_count + 1,
                 with_pump |-> Some(da.w), without_pump |-> Some(da.n)]
    IN  IF da.raised THEN kept
        ELSE IF up.raised THEN kept
        ELSE [derived |-> Some(<<da.da_par, da.da_perp, da.da_cd>>),
              avg |-> <<up.avg_da_par, up.avg_da_perp, up.avg_da_cd>>,
              count |-> count + 1, average_count |-> up.average_count,
              with_pump |-> IF io \in {"ok", "none"} THEN None ELSE Some(da.w),
              without_pump |-> IF io \in {"ok", "none"} THEN None ELSE Some(da.n)]

\* The same components as the call left them.
PairOutcome ==
    [derived |-> IF DeriveStep
                 THEN Some(<<Val(Val(signals'.new_data).da_par),
                             Val(Val(signals'.new_data).da_perp),
                             Val(Val(signals'.new_data).da_cd)>>)
                 ELSE None,
     avg |-> <<avg_da_par', avg_da_perp', avg_da_cd'>>,
     count |-> count', average_count |-> average_count',
     with_pump |-> with_pump', without_pump |-> without_pump']

\* C32: what a call that completes a pair yields (derived signals with the
\* with-pump trace as the pumped one, running averages, counters, slots) is
\* determined by the pair and the state before it, not by which of the two
\* halves arrived last; a call that returns normally leaves both slots empty.
C32_OrderIndependent ==
    [][CountStep =>
         \E w \in {PairWith}, n \in {PairWithout} :
           \E r \in {PairResult(w, n, io_met')} :
             /\ PairOutcome = r
             /\ outcome'.result = "derived" =>
                  with_pump' = None /\ without_pump' = None
      ]_vars

\* C32 witness: a pair of different traces was completed by its with-pump
\* half, arriving second, and the derived dA is not zero.
C32_Witness ==
    /\ outcome.result = "derived" /\ outcome.has_pump
    /\ count = 1 /\ derivations = 1
    /\ with_pump = None /\ without_pump = None
    /\ LET shown == Val(signals.new_data)
       IN  Val(shown.da_par) # ZerosV(Len(shown.par))

\* ------------------------------------------------------------------- C33
\* The step of cleanup_when_done that writes the stop flag back to False.
FlagClearedStep == SHOULD_STOP /\ ~SHOULD_STOP'

\* Both worker threads were told to quit and have finished.
ThreadsFinished == comp_quit /\ ~comp_running /\ ~exp_running /\ comp_pc = "idle"

\* C33: cleanup_when_done writes the stop flag back to False only when both
\* threads were told to quit and have finished, and from the completion of a
\* session on no thread of it runs while the flag is False.
C33_ClearedAfterThreadsFinished ==
    /\ [][FlagClearedStep => (ThreadsFinished /\ ThreadsFinished')]_vars
    /\ []((done = "handled" /\ ~SHOULD_STOP) => ThreadsFinished)

\* C33 witness: the session reached its budget of one measurement, the done
\* signal was handled and cleanup_when_done has just cleared the flag.
C33_Witness ==
    /\ ui_pc = "cleanup_unlock" /\ ~SHOULD_STOP /\ done = "handled"
    /\ max_measurements = 1 /\ count = 1 /\ completed = 1
    /\ ThreadsFinished

====
